---------------------------- MODULE Spec2Model ----------------------------
(* A model of the file manager's HTTP API (src/server.js): the upload,    *)
(* list, download and delete handlers, multer's file filter and size      *)
(* limit, the error-handling middleware, and the blob container they all  *)
(* talk to.  Every `await` of a handler is a point where another request  *)
(* may run, so a handler is one action per backend call: the call takes   *)
(* effect on the container and the handler runs on to its next `await`    *)
(* or to its response.                                                    *)
(* Strings whose characters matter (file names, blob names, extensions)   *)
(* are sequences of one-character strings.                                *)
EXTENDS Integers, Sequences, FiniteSets, TLC

VARIABLES store, now, req, given

vars == <<store, now, req, given>>

-----------------------------------------------------------------------------
(* Bounds of the model *)

\* Date.now() runs from StartTime to MaxTime (one and two decimal digits).
StartTime == 9
MaxTime == 10

\* The connections on which requests arrive; a connection carries one
\* request at a time, the two connections run concurrently.
Conns == {"c1", "c2"}

Times == StartTime..MaxTime

-----------------------------------------------------------------------------
(* Strings *)

\* String.prototype.toLowerCase, on the characters the model uses
LowerChar(ch) ==
    CASE ch = "P" -> "p"
      [] ch = "D" -> "d"
      [] ch = "F" -> "f"
      [] OTHER -> ch

ToLowerCase(s) == [i \in 1..Len(s) |-> LowerChar(s[i])]

Digit(d) ==
    CASE d = 0 -> "0" [] d = 1 -> "1" [] d = 2 -> "2" [] d = 3 -> "3"
      [] d = 4 -> "4" [] d = 5 -> "5" [] d = 6 -> "6" [] d = 7 -> "7"
      [] d = 8 -> "8" [] d = 9 -> "9"

\* Number-to-string conversion of a template literal, for n >= 0
RECURSIVE NumToString(_)
NumToString(n) ==
    IF n < 10 THEN <<Digit(n)>>
    ELSE NumToString(n \div 10) \o <<Digit(n % 10)>>

\* String.prototype.split(sep) for a one-character separator
RECURSIVE SplitFrom(_, _, _)
SplitFrom(s, sep, cur) ==
    IF s = <<>> THEN <<cur>>
    ELSE IF Head(s) = sep
         THEN <<cur>> \o SplitFrom(Tail(s), sep, <<>>)
         ELSE SplitFrom(Tail(s), sep, Append(cur, Head(s)))

Split(s, sep) == SplitFrom(s, sep, <<>>)

\* Array.prototype.join(sep)
RECURSIVE Join(_, _)
Join(parts, sep) ==
    IF parts = <<>> THEN <<>>
    ELSE IF Len(parts) = 1 THEN parts[1]
         ELSE parts[1] \o <<sep>> \o Join(Tail(parts), sep)

\* Array.prototype.slice(1)
Slice1(parts) == IF parts = <<>> THEN <<>> ELSE Tail(parts)

\* path.extname on a name without directory separators: from the last '.'
\* to the end; empty when there is no '.', when no character other than '.'
\* comes before the last '.', except that a name of several dots followed
\* by text keeps its extension ("..pdf" -> ".pdf", ".pdf" -> "", ".." -> "").
LastDot(s) ==
    IF \E i \in 1..Len(s) : s[i] = "."
    THEN CHOOSE i \in 1..Len(s) :
            s[i] = "." /\ \A j \in (i + 1)..Len(s) : s[j] # "."
    ELSE 0

ExtName(s) ==
    LET startDot == LastDot(s)
        preDot == IF startDot <= 1 THEN 0
                  ELSE IF \E j \in 1..(startDot - 1) : s[j] # "." THEN -1 ELSE 1
    IN  IF \/ startDot = 0
           \/ preDot = 0
           \/ (preDot = 1 /\ startDot = Len(s) /\ startDot = 2)
        THEN <<>>
        ELSE SubSeq(s, startDot, Len(s))


-----------------------------------------------------------------------------
(* Uploaded files, blobs and responses *)

\* limits.fileSize of the multer configuration
FileSizeLimit == 10 * 1024 * 1024

\* allowedTypes of the file filter
allowedTypes ==
    { <<".", "t", "x", "t">>, <<".", "p", "d", "f">>, <<".", "p", "n", "g">>,
      <<".", "j", "p", "g">>, <<".", "j", "p", "e", "g">>,
      <<".", "g", "i", "f">>, <<".", "d", "o", "c">>,
      <<".", "d", "o", "c", "x">>, <<".", "x", "l", "s">>,
      <<".", "x", "l", "s", "x">> }

\* A buffer: its length and a tag that tells two contents apart
Content(len, data) == [len |-> len, data |-> data]
NoContent == Content(-1, 0)

\* req.file as multer builds it; present = FALSE is a request with no file part
File(name, content, mimetype) ==
    [present |-> TRUE, name |-> name, content |-> content, mimetype |-> mimetype]
NoFile == [present |-> FALSE, name |-> <<>>, content |-> NoContent, mimetype |-> ""]

NotesTxt == <<"n", ".", "t", "x", "t">>
DashPdf == <<"1", "-", "a", ".", "P", "D", "F">>
MalwareExe == <<"m", ".", "e", "x", "e">>
DotPdf == <<".", "p", "d", "f">>

DashesTxt == <<"-", "a", "-", "-", "2", ".", "t", "x", "t">>

\* The upload bodies of concurrent requests: two contents under one name, a
\* request without a file part and a file over the size limit
Uploads ==
    { File(NotesTxt, Content(500, 1), "text/plain"),
      File(NotesTxt, Content(FileSizeLimit, 2), "application/octet-stream"),
      File(NotesTxt, Content(FileSizeLimit + 1, 1), "text/plain"),
      NoFile }

\* The upload bodies of sequential requests
Files ==
    Uploads \cup
    { File(DashPdf, Content(500, 1), "application/pdf"),
      File(DashesTxt, Content(0, 1), "text/plain"),
      File(MalwareExe, Content(500, 1), "application/octet-stream"),
      File(MalwareExe, Content(FileSizeLimit + 1, 1), "application/octet-stream"),
      File(DotPdf, Content(500, 1), "application/pdf") }

\* A blob of the container: the bytes and the blobContentType header
Blob(content, contentType) == [content |-> content, contentType |-> contentType]
NoBlob == Blob(NoContent, "")

\* A response: the status, the fields of a JSON body ("undefined" and <<>>
\* stand for a field the body does not carry) and, for a download, the
\* headers and the streamed bytes.
Response(status, success, error) ==
    [status |-> status, success |-> success, error |-> error,
     message |-> "undefined", fileName |-> <<>>, originalName |-> <<>>,
     size |-> -1, contentType |-> "undefined", contentLength |-> -1,
     disposition |-> <<>>, body |-> NoContent,
     hasFiles |-> FALSE, files |-> <<>>]
NoResponse == Response(0, "undefined", <<>>)

\* exists() with the check left out: every blob is taken to exist
BlobExistsAlways(st, k) == TRUE

\* blobClient.exists()
BlobExists(st, k) == k \in DOMAIN st

\* The container after blockBlobClient.upload / blobClient.delete succeeded
PutBlob(st, k, b) == [x \in DOMAIN st \cup {k} |-> IF x = k THEN b ELSE st[x]]
DeleteBlob(st, k) == [x \in DOMAIN st \ {k} |-> st[x]]

\* What a backend call that reads or deletes blob k ends with: a generic
\* failure of the call, the store's error for an absent blob, or success
CallOn(st, k, ok) ==
    IF ~ok THEN "BackendError"
    ELSE IF k \notin DOMAIN st THEN "BlobNotFound" ELSE "ok"

-----------------------------------------------------------------------------
(* The handlers' pure parts *)

\* fileFilter: cb(null, true) or cb(new Error(...), false)
FileFilter(file) == ToLowerCase(ExtName(file.name)) \in allowedTypes

\* upload.single('file'): the filter runs on the part's header, the size
\* limit while the part's bytes are read
Multer(file) ==
    IF ~file.present THEN "nofile"
    ELSE IF ~FileFilter(file) THEN "filter"
    ELSE IF file.content.len > FileSizeLimit THEN "limit"
    ELSE "ok"

\* The error-handling middleware
ErrorMiddleware(isMulterError, code, message) ==
    IF isMulterError /\ code = "LIMIT_FILE_SIZE"
    THEN Response(400, "false", <<"File too large. Maximum size is 10MB">>)
    ELSE Response(500, "false", <<message>>)

\* `${Date.now()}-${req.file.originalname}`
FileName(t, originalname) == NumToString(t) \o <<"-">> \o originalname

\* blob.name.split('-')[1]: the second segment alone
OriginalNameSecondSegment(name) ==
    LET parts == Split(name, "-") IN IF Len(parts) > 1 THEN parts[2] ELSE <<>>

\* blob.name.split('-').slice(1).join('-')
OriginalName(name) == Join(Slice1(Split(name, "-")), "-")

\* The blob names uploads of the given files can construct: the requests'
\* path parameters
KeysOf(files) ==
    { FileName(t, f.name) : t \in Times, f \in { g \in files : Multer(g) = "ok" } }

Keys == KeysOf(Files)

-----------------------------------------------------------------------------
(* Requests *)

\* A request on a connection: the handler (kind), where it stands (pc), its
\* locals (fileName as key, req.file, the enumeration, files, the headers
\* set so far) and its response once sent.  failed, pst, pblob and pkeys
\* are history: whether a backend call of the request failed, and what the
\* container held for the request's blob when its first backend call ran
\* ("never" written, "removed" by a delete, "present" as pblob, "touched"
\* once another request wrote or deleted it since); for a list request,
\* pkeys is the set of blobs that were removed then and not written since.
Request(kind, pc) ==
    [kind |-> kind, pc |-> pc, key |-> <<>>, file |-> NoFile,
     items |-> <<>>, files |-> <<>>,
     hdrType |-> "undefined", hdrLength |-> -1,
     resp |-> NoResponse,
     failed |-> FALSE, pst |-> "none", pblob |-> NoBlob, pkeys |-> {}]

Done(r, response) == [r EXCEPT !.pc = "done", !.resp = response]

Free(c) == req[c].pc \in {"idle", "done"}

\* The history of the other requests in flight when blob k is written
\* (written = TRUE) or deleted
Touch(r, k, written) ==
    IF r.pc \in {"idle", "done"} THEN r
    ELSE IF r.kind = "list"
         THEN [r EXCEPT !.pkeys = IF written THEN @ \ {k} ELSE @]
    ELSE IF r.kind \in {"download", "delete"} /\ r.key = k
         THEN [r EXCEPT !.pst = "touched"]
    ELSE r

\* What the container holds for blob k, as history
StateOf(k) ==
    IF k \in DOMAIN store THEN "present"
    ELSE IF k \in DOMAIN given THEN "removed" ELSE "never"

Removed == DOMAIN given \ DOMAIN store

TypeOK ==
    /\ DOMAIN store \subseteq Keys
    /\ DOMAIN given \subseteq Keys
    /\ DOMAIN store \subseteq DOMAIN given
    /\ now \in Times
    /\ DOMAIN req = Conns

Init ==
    /\ store = << >>
    /\ given = << >>
    /\ now = StartTime
    /\ req = [c \in Conns |-> Request("none", "idle")]

\* Date.now() advances
Tick ==
    /\ now < MaxTime
    /\ now' = now + 1
    /\ UNCHANGED <<store, req, given>>

-----------------------------------------------------------------------------
(* POST /api/upload *)

\* The handler up to its await: multer, the check of req.file, the blob name
UploadHandler(file, t) ==
    LET r == [Request("upload", "writing") EXCEPT !.file = file]
        m == Multer(file)
    IN  IF m = "filter"
        THEN Done(r, ErrorMiddleware(FALSE, "", "File type is not allowed"))
        ELSE IF m = "limit"
        THEN Done(r, ErrorMiddleware(TRUE, "LIMIT_FILE_SIZE", "File too large"))
        ELSE IF m = "nofile"
        THEN Done(r, Response(400, "undefined", <<"No file uploaded">>))
        ELSE [r EXCEPT !.key = FileName(t, file.name)]

UploadStart(c, file) ==
    /\ Free(c)
    /\ req' = [req EXCEPT ![c] = UploadHandler(file, now)]
    /\ UNCHANGED <<store, now, given>>

\* A failed write that leaves the blob behind
UploadStoreOnFailure(st, r, ok) ==
    PutBlob(st, r.key, Blob(r.file.content, r.file.mimetype))

\* The container after the awaited blockBlobClient.upload
UploadStore(st, r, ok) ==
    IF ok THEN PutBlob(st, r.key, Blob(r.file.content, r.file.mimetype)) ELSE st

\* The handler after the await: the success body, or the catch block
UploadAfter(r, ok) ==
    IF ok
    THEN Done(r, [Response(200, "true", <<>>) EXCEPT
                    !.message = "File uploaded successfully",
                    !.fileName = r.key,
                    !.originalName = r.file.name,
                    !.size = r.file.content.len,
                    !.contentType = r.file.mimetype])
    ELSE Done(r, Response(500, "false", <<"Upload failed: ", "BackendError">>))

UploadWrite(c, ok) ==
    /\ req[c].kind = "upload" /\ req[c].pc = "writing"
    /\ store' = UploadStore(store, req[c], ok)
    /\ given' = IF ok THEN PutBlob(given, req[c].key, req[c].file.name) ELSE given
    /\ req' = [d \in Conns |->
                 IF d = c THEN [UploadAfter(req[c], ok) EXCEPT !.failed = ~ok]
                 ELSE IF ok THEN Touch(req[d], req[c].key, TRUE) ELSE req[d]]
    /\ UNCHANGED now

-----------------------------------------------------------------------------
(* GET /api/files *)

\* containerClient.listBlobsFlat(): the container's blobs, each with the
\* properties the enumeration carries, in an order the store chooses
RECURSIVE ListBlobsFlat(_)
ListBlobsFlat(st) ==
    IF DOMAIN st = {} THEN <<>>
    ELSE LET k == CHOOSE x \in DOMAIN st : TRUE
         IN  <<[name |-> k, contentLength |-> st[k].content.len,
                contentType |-> st[k].contentType]>>
             \o ListBlobsFlat(DeleteBlob(st, k))

\* The entry files.push adds for an enumerated blob
FileEntry(blob) ==
    [name |-> blob.name, originalName |-> OriginalName(blob.name),
     size |-> blob.contentLength, contentType |-> blob.contentType]

ListResponse(files) ==
    [Response(200, "true", <<>>) EXCEPT !.hasFiles = TRUE, !.files = files]

ListFailed(r, got) == Done(r, Response(500, "false", <<"Failed to list files: ", got>>))

\* The first step of the for-await loop: the enumeration call
ListAfterEnum(r, got, blobs) ==
    IF got # "ok" THEN ListFailed(r, got)
    ELSE IF blobs = <<>> THEN Done(r, ListResponse(<<>>))
    ELSE [r EXCEPT !.items = blobs]

ListEnum(c, ok) ==
    /\ Free(c)
    /\ req' = [req EXCEPT ![c] =
                 [ListAfterEnum(Request("list", "listing"),
                                IF ok THEN "ok" ELSE "BackendError",
                                ListBlobsFlat(store))
                    EXCEPT !.failed = ~ok, !.pst = "list", !.pkeys = Removed]]
    /\ UNCHANGED <<store, now, given>>

\* The loop body with the failure caught inside the loop: the listing ends
\* there and is sent as it stands
ListAfterPropsPartial(r, got) ==
    IF got # "ok" THEN Done(r, ListResponse(r.files))
    ELSE LET files == Append(r.files, FileEntry(r.items[Len(r.files) + 1]))
         IN  IF Len(files) = Len(r.items)
             THEN Done([r EXCEPT !.files = files], ListResponse(files))
             ELSE [r EXCEPT !.files = files]

\* One turn of the loop body: the awaited getProperties of the next blob,
\* the push, and the response when the enumeration is exhausted
ListAfterProps(r, got) ==
    IF got # "ok" THEN ListFailed(r, got)
    ELSE LET files == Append(r.files, FileEntry(r.items[Len(r.files) + 1]))
         IN  IF Len(files) = Len(r.items)
             THEN Done([r EXCEPT !.files = files], ListResponse(files))
             ELSE [r EXCEPT !.files = files]

ListProps(c, ok) ==
    /\ req[c].kind = "list" /\ req[c].pc = "listing"
    /\ LET got == CallOn(store, req[c].items[Len(req[c].files) + 1].name, ok)
       IN  req' = [req EXCEPT ![c] =
                     [ListAfterProps(req[c], got) EXCEPT
                        !.failed = (got # "ok")]]
    /\ UNCHANGED <<store, now, given>>

-----------------------------------------------------------------------------
(* GET /api/download/:fileName *)

NotFound == Response(404, "false", <<"File not found">>)

\* The history a download or delete of blob k starts with
Start(kind, pc, k) ==
    [Request(kind, pc) EXCEPT
       !.key = k, !.pst = StateOf(k),
       !.pblob = IF k \in DOMAIN store THEN store[k] ELSE NoBlob]

DownloadFailed(r, got) == Done(r, Response(500, "false", <<"Download failed: ", got>>))

\* The awaited exists() and the 404
DownloadAfterExists(r, got, exists) ==
    IF got # "ok" THEN DownloadFailed(r, got)
    ELSE IF ~exists THEN Done(r, NotFound)
    ELSE [r EXCEPT !.pc = "props"]

DlExists(c, k, ok) ==
    /\ Free(c)
    /\ req' = [req EXCEPT ![c] =
                 [DownloadAfterExists(Start("download", "exists", k),
                                      IF ok THEN "ok" ELSE "BackendError",
                                      BlobExists(store, k))
                    EXCEPT !.failed = ~ok]]
    /\ UNCHANGED <<store, now, given>>

\* The Content-Type header without the stored type
ContentTypeHeaderDefault(contentType) == "application/octet-stream"

\* The headers set from the awaited getProperties()
ContentTypeHeader(contentType) ==
    IF contentType = "" THEN "application/octet-stream" ELSE contentType

DownloadAfterProps(r, got, blob) ==
    IF got # "ok" THEN DownloadFailed(r, got)
    ELSE [r EXCEPT !.pc = "body",
                   !.hdrType = ContentTypeHeader(blob.contentType),
                   !.hdrLength = blob.content.len]

DlProps(c, ok) ==
    /\ req[c].kind = "download" /\ req[c].pc = "props"
    /\ LET got == CallOn(store, req[c].key, ok)
       IN  req' = [req EXCEPT ![c] =
                     [DownloadAfterProps(req[c], got,
                                         IF got = "ok" THEN store[req[c].key] ELSE NoBlob)
                        EXCEPT !.failed = (got # "ok")]]
    /\ UNCHANGED <<store, now, given>>

\* The awaited download() and the pipe of its stream into the response
DownloadAfterBody(r, got, blob) ==
    IF got # "ok" THEN DownloadFailed(r, got)
    ELSE Done(r, [Response(200, "undefined", <<>>) EXCEPT
                    !.disposition = r.key,
                    !.contentType = r.hdrType,
                    !.contentLength = r.hdrLength,
                    !.body = blob.content])

DlBody(c, ok) ==
    /\ req[c].kind = "download" /\ req[c].pc = "body"
    /\ LET got == CallOn(store, req[c].key, ok)
       IN  req' = [req EXCEPT ![c] =
                     [DownloadAfterBody(req[c], got,
                                        IF got = "ok" THEN store[req[c].key] ELSE NoBlob)
                        EXCEPT !.failed = (got # "ok")]]
    /\ UNCHANGED <<store, now, given>>

-----------------------------------------------------------------------------
(* DELETE /api/files/:fileName *)

DeleteFailed(r, got) == Done(r, Response(500, "false", <<"Delete failed: ", got>>))

\* The awaited exists() and the 404
DeleteAfterExists(r, got, exists) ==
    IF got # "ok" THEN DeleteFailed(r, got)
    ELSE IF ~exists THEN Done(r, NotFound)
    ELSE [r EXCEPT !.pc = "deleting"]

DelExists(c, k, ok) ==
    /\ Free(c)
    /\ req' = [req EXCEPT ![c] =
                 [DeleteAfterExists(Start("delete", "exists", k),
                                    IF ok THEN "ok" ELSE "BackendError",
                                    BlobExists(store, k))
                    EXCEPT !.failed = ~ok]]
    /\ UNCHANGED <<store, now, given>>

\* The awaited delete() and the success body
DeleteAfterDelete(r, got) ==
    IF got # "ok" THEN DeleteFailed(r, got)
    ELSE Done(r, [Response(200, "true", <<>>) EXCEPT
                    !.message = "File deleted successfully"])

DelDelete(c, ok) ==
    /\ req[c].kind = "delete" /\ req[c].pc = "deleting"
    /\ LET got == CallOn(store, req[c].key, ok)
       IN  /\ store' = IF got = "ok" THEN DeleteBlob(store, req[c].key) ELSE store
           /\ req' = [d \in Conns |->
                        IF d = c
                        THEN [DeleteAfterDelete(req[c], got) EXCEPT
                                !.failed = (got # "ok")]
                        ELSE IF got = "ok" THEN Touch(req[d], req[c].key, FALSE)
                        ELSE req[d]]
    /\ UNCHANGED <<now, given>>

-----------------------------------------------------------------------------
(* The system *)

\* The steps of requests on the connections C that upload the files F,
\* where a backend call succeeds (as far as the blob allows) for ok \in B
Step(C, F, B) ==
    \/ Tick
    \/ \E c \in C, file \in F : UploadStart(c, file)
    \/ \E c \in C, ok \in B : UploadWrite(c, ok)
    \/ \E c \in C, ok \in B : ListEnum(c, ok)
    \/ \E c \in C, ok \in B : ListProps(c, ok)
    \/ \E c \in C, k \in KeysOf(F), ok \in B : DlExists(c, k, ok)
    \/ \E c \in C, ok \in B : DlProps(c, ok)
    \/ \E c \in C, ok \in B : DlBody(c, ok)
    \/ \E c \in C, k \in KeysOf(F), ok \in B : DelExists(c, k, ok)
    \/ \E c \in C, ok \in B : DelDelete(c, ok)

\* Concurrent requests on two connections; any backend call may fail
Next == Step(Conns, Uploads, BOOLEAN)

Spec == Init /\ [][Next]_vars

\* Requests one after the other on one connection, with every upload body
SeqNext == Step({"c1"}, Files, BOOLEAN)

SeqSpec == Init /\ [][SeqNext]_vars

\* Concurrent requests over a backend that fails only when asked to read
\* or delete an absent blob
ReliableNext == Step(Conns, Uploads, {TRUE})

ReliableSpec == Init /\ [][ReliableNext]_vars

-----------------------------------------------------------------------------
(* Properties *)

\* The request on connection c takes this step
Acts(c) ==
    /\ req'[c] # req[c]
    /\ Free(c) \/ req'[c].pc # req[c].pc \/ req'[c].files # req[c].files

\* The request on connection c sends its response in this step
Responds(c) == Acts(c) /\ req'[c].pc = "done"

Finished(c, kind) == req[c].kind = kind /\ req[c].pc = "done"

\* The extension as the browser client takes it:
\* '.' + file.name.split('.').pop().toLowerCase()
ClientFileExt(name) ==
    LET parts == Split(name, ".") IN <<".">> \o ToLowerCase(parts[Len(parts)])

\* The text after the last '.' of the name, compared case-insensitively, is
\* in the allow-list
AllowListed(name) ==
    /\ \E i \in 1..Len(name) : name[i] = "."
    /\ ClientFileExt(name) \in allowedTypes

\* A response that reports a failed backend call of the request
BackendFailure(r, what) ==
    /\ r.failed
    /\ r.resp.status = 500
    /\ r.resp.success = "false"
    /\ r.resp.error = <<what, "BackendError">>

-----------------------------------------------------------------------------
\* C1: an upload whose file name has an extension outside the allow-list is
\* answered with status 400, and the container holds the same blobs with the
\* same contents after the request as before it.
C1_UnsupportedTypeIs400 ==
    [][\A c \in Conns :
         (/\ Responds(c)
          /\ req'[c].kind = "upload"
          /\ req'[c].file.present
          /\ ~AllowListed(req'[c].file.name))
         => (req'[c].resp.status = 400 /\ store' = store)]_vars

\* C2: an upload whose file is larger than 10 MiB is rejected as too large
\* with status 400, whatever its extension, and nothing is written to the
\* container.
C2_TooLargeIs400 ==
    [][\A c \in Conns :
         (/\ Responds(c)
          /\ req'[c].kind = "upload"
          /\ req'[c].file.present
          /\ req'[c].file.content.len > FileSizeLimit)
         => (/\ req'[c].resp.status = 400
             /\ req'[c].resp.error = <<"File too large. Maximum size is 10MB">>
             /\ store' = store)]_vars

\* C3: every error response (status 400, 404 or 500) has a JSON body with
\* success equal to false and an error message.
C3_ErrorShape ==
    \A c \in Conns :
        (req[c].pc = "done" /\ req[c].resp.status \in {400, 404, 500})
        => (req[c].resp.success = "false" /\ req[c].resp.error # <<>>)

\* C6: an upload whose file name has an allow-listed extension (the text
\* after the last '.', case-insensitively) and whose size is at most 10 MiB
\* passes the server's validation, and when the backend write succeeds
\* exactly one entry is created, under <upload-timestamp>-<originalName>.
C6_ValidUploadAccepted ==
    [][\A c \in Conns :
         LET file == req'[c].file
             valid == /\ req'[c].kind = "upload"
                      /\ file.present
                      /\ AllowListed(file.name)
                      /\ file.content.len <= FileSizeLimit
         IN  /\ (Acts(c) /\ Free(c) /\ valid)
                => (/\ req'[c].pc = "writing"
                    /\ \E t \in Times : req'[c].key = FileName(t, file.name))
             /\ (Responds(c) /\ valid /\ ~req'[c].failed)
                => (/\ req'[c].resp.status = 200
                    /\ DOMAIN store' = DOMAIN store \cup {req'[c].key}
                    /\ Cardinality(DOMAIN store') = Cardinality(DOMAIN store) + 1
                    /\ store'[req'[c].key] = Blob(file.content, file.mimetype))]_vars

\* C10: over a backend that fails only when asked to read or delete an
\* absent blob, a delete or download of a blob that runs concurrently with
\* a delete of the same blob ends with its success response or with 404,
\* never with 500; of two concurrent deletes of a present blob one gets
\* success and the other 404.
C10_ConcurrentDeleteNever500 ==
    \A c \in Conns :
        (req[c].pc = "done" /\ req[c].kind \in {"delete", "download"})
        => req[c].resp.status \in {200, 404}

-----------------------------------------------------------------------------
\* C4 as stated: once an upload of bytes B with content type T has returned
\* blob name K, and while no delete of K and no later write of K happens,
\* every download of K returns exactly B with Content-Type T and
\* Content-Length the length of B.
C4_EveryDownloadReturnsBytes ==
    \A c \in Conns :
        (Finished(c, "download") /\ req[c].pst = "present")
        => (/\ req[c].resp.status = 200
            /\ req[c].resp.body = req[c].pblob.content
            /\ req[c].resp.contentType = req[c].pblob.contentType
            /\ req[c].resp.contentLength = req[c].pblob.content.len)

\* C4 (amended): under the same condition, a download of K all of whose
\* backend calls succeed returns exactly B with Content-Type T and
\* Content-Length the length of B, whatever happened to other blobs in
\* between; a download one of whose backend calls fails is answered with
\* 500; it is never answered with 404.
C4_RoundTrip ==
    \A c \in Conns :
        (Finished(c, "download") /\ req[c].pst = "present")
        => \/ /\ ~req[c].failed
              /\ req[c].resp.status = 200
              /\ req[c].resp.disposition = req[c].key
              /\ req[c].resp.body = req[c].pblob.content
              /\ req[c].resp.contentType = req[c].pblob.contentType
              /\ req[c].resp.contentLength = req[c].pblob.content.len
           \/ BackendFailure(req[c], "Download failed: ")

\* A download returned the bytes of the blob while the other connection
\* wrote another blob after the download had begun.
C4_Witness ==
    \E c \in Conns, d \in Conns :
        /\ Finished(c, "download") /\ req[c].pst = "present"
        /\ req[c].resp.status = 200
        /\ req[c].resp.body.len = FileSizeLimit
        /\ Finished(d, "upload") /\ req[d].resp.status = 200
        /\ req[d].key # req[c].key
        /\ req[d].key \in DOMAIN store

\* C5 as stated: after a delete of K has returned success and until a later
\* upload writes K again, every list response excludes K and every download
\* or delete of K returns 404 (never 500) and leaves the container
\* unchanged.
C5_AbsentAlways404 ==
    [][\A c \in Conns :
         Responds(c) =>
           /\ (req'[c].kind \in {"download", "delete"} /\ req'[c].pst = "removed")
              => (req'[c].resp = NotFound /\ store' = store)
           /\ (req'[c].kind = "list" /\ req'[c].resp.hasFiles)
              => \A i \in 1..Len(req'[c].resp.files) :
                    req'[c].resp.files[i].name \notin req'[c].pkeys]_vars

\* C5 (amended): after a delete of K has returned success and until a later
\* upload writes K again, every list response excludes K, and every download
\* or delete of K leaves the container unchanged and returns 404, or 500
\* when its own exists() call fails.
C5_AbsentAfterDelete ==
    [][\A c \in Conns :
         Responds(c) =>
           /\ (req'[c].kind \in {"download", "delete"} /\ req'[c].pst = "removed")
              => /\ \/ req'[c].resp = NotFound /\ ~req'[c].failed
                    \/ BackendFailure(req'[c],
                                      IF req'[c].kind = "delete"
                                      THEN "Delete failed: " ELSE "Download failed: ")
                 /\ store' = store
           /\ (req'[c].kind = "list" /\ req'[c].resp.hasFiles)
              => \A i \in 1..Len(req'[c].resp.files) :
                    req'[c].resp.files[i].name \notin req'[c].pkeys]_vars

\* A delete of a removed blob was answered 404 while a list that began after
\* the removal returned a listing without it.
C5_Witness ==
    \E c \in Conns, d \in Conns :
        /\ Finished(c, "delete") /\ req[c].pst = "removed"
        /\ req[c].resp = NotFound
        /\ Finished(d, "list") /\ req[d].resp.hasFiles
        /\ req[c].key \in req[d].pkeys
        /\ Len(req[d].resp.files) > 0

-----------------------------------------------------------------------------
\* C7: for every blob name that upload constructs as
\* <epoch-millis>-<originalName>, the originalName that list reports for it
\* is the original name given at upload, also for names that contain '-' or
\* start with digits followed by '-'.
C7_NameRecovery ==
    /\ \A c \in Conns :
          (Finished(c, "list") /\ req[c].resp.hasFiles)
          => \A i \in 1..Len(req[c].resp.files) :
                LET e == req[c].resp.files[i]
                IN  /\ e.name \in DOMAIN given
                    /\ e.originalName = given[e.name]
    /\ \A c \in Conns :
          (Finished(c, "upload") /\ req[c].resp.status = 200)
          => /\ req[c].resp.originalName = req[c].file.name
             /\ \E t \in Times :
                   req[c].resp.fileName = FileName(t, req[c].file.name)
             /\ OriginalName(req[c].resp.fileName) = req[c].file.name

\* A listing reports the names "1-a.PDF" and "-a--2.txt" for their blobs.
C7_Witness ==
    \E c \in Conns :
        /\ Finished(c, "list") /\ req[c].resp.hasFiles
        /\ \E i, j \in 1..Len(req[c].resp.files) :
              /\ req[c].resp.files[i].originalName = DashPdf
              /\ req[c].resp.files[j].originalName = DashesTxt

\* C8: a list request is all-or-nothing: when the enumeration call or a
\* per-blob getProperties call fails the response is a 500 error without
\* file entries; otherwise it is a success with exactly one entry for every
\* blob the enumeration returned, in that order.  No response is sent
\* before the loop ends.
C8_ListAllOrNothing ==
    \A c \in Conns :
        req[c].kind = "list" =>
          /\ req[c].pc # "done" => req[c].resp = NoResponse
          /\ (req[c].pc = "done" /\ req[c].failed)
             => /\ req[c].resp.status = 500
                /\ req[c].resp.success = "false"
                /\ ~req[c].resp.hasFiles
                /\ req[c].resp.files = <<>>
          /\ (req[c].pc = "done" /\ ~req[c].failed)
             => /\ req[c].resp.status = 200
                /\ req[c].resp.success = "true"
                /\ req[c].resp.hasFiles
                /\ Len(req[c].resp.files) = Len(req[c].items)
                /\ \A i \in 1..Len(req[c].items) :
                      req[c].resp.files[i] = FileEntry(req[c].items[i])
                /\ \A i, j \in 1..Len(req[c].items) :
                      req[c].items[i].name = req[c].items[j].name => i = j

\* A list request failed after it had gathered an entry, and answered 500.
C8_Witness ==
    \E c \in Conns :
        /\ Finished(c, "list") /\ req[c].failed
        /\ Len(req[c].files) > 0
        /\ req[c].resp.status = 500

\* C9: a blob goes from absent to present only by a step of a successful
\* upload of it and from present to absent only by a step of a delete of
\* it; steps of list and download requests, steps that answer 400 or 404,
\* and the step of an upload whose backend write fails leave the
\* container's blobs and their contents unchanged.
C9_Frame ==
    [][/\ \A k \in Keys :
            (k \notin DOMAIN store /\ k \in DOMAIN store')
            => \E c \in Conns :
                  /\ req[c].kind = "upload" /\ req[c].pc = "writing"
                  /\ req[c].key = k
                  /\ Responds(c) /\ req'[c].resp.status = 200
       /\ \A k \in Keys :
            (k \in DOMAIN store /\ k \notin DOMAIN store')
            => \E c \in Conns :
                  /\ req[c].kind = "delete" /\ req[c].pc = "deleting"
                  /\ req[c].key = k
                  /\ Responds(c) /\ req'[c].resp.status = 200
       /\ \A c \in Conns :
            (/\ Acts(c)
             /\ \/ req'[c].kind \in {"list", "download"}
                \/ Responds(c) /\ req'[c].resp.status \in {400, 404}
                \/ Responds(c) /\ req'[c].kind = "upload"
                               /\ req'[c].resp.status = 500)
            => store' = store]_vars

\* An upload's backend write failed over a present blob of another content,
\* which is still there.
C9_Witness ==
    \E c \in Conns :
        /\ Finished(c, "upload") /\ req[c].failed
        /\ req[c].resp.status = 500
        /\ req[c].key \in DOMAIN store
        /\ store[req[c].key].content # req[c].file.content

=============================================================================
